---- MODULE Spec2Model ----
(***************************************************************************)
(* Term-based commit / reveal / vote / benchmark scheduler of the taomap   *)
(* validator (src/neurons/validator.py, src/taomap/base/neuron.py).        *)
(*                                                                         *)
(* The block windows of src/taomap/constants.py are configuration values   *)
(* (BaseNeuron.load_configuration overwrites them at start-up).  The model *)
(* keeps their order and the inclusive / exclusive ends of every window    *)
(* and shortens the windows so that a term is 12 blocks long.              *)
(***************************************************************************)
EXTENDS Integers, Sequences, FiniteSets, TLC

(***************************************************************************)
(* Program constants (src/taomap/constants.py), windows shortened.         *)
(***************************************************************************)
BLOCKS_PER_TERM == 12
BLOCKS_SHARE_SEED == 2
BLOCKS_START_BENCHMARK == 4
BLOCKS_PER_GROUP == 2
BLOCKS_SEEDHASH_START == 8
BLOCKS_SEEDHASH_END == 10
VALIDATOR_MIN_STAKE == 5000
\* every group has 4 miners (the literal 4 of cluster_miners)
GROUP_SIZE == 4

(***************************************************************************)
(* Bounds of the model.                                                    *)
(***************************************************************************)
\* neurons of a network snapshot handed to cluster_miners on its own
MaxNeurons == 9
\* neurons of such a snapshot that are not plain address-unique miners
MaxSpecial == 1
\* random.randint(0, 100) draws a seed from 0..MaxSeed
MaxSeed == 1
\* blocks the ledger grows by while one commit or upload is under way
MaxLag == 1
\* blocks the ledger grows by in a run of the scheduler
MaxBlocks == 8
\* probes of one group that get no response
MaxTimeouts == 1
\* miners of the snapshot set_weights is applied to on its own
MaxProbed == 2

VARIABLES
    ORIGIN_TERM_BLOCK,  \* constants.ORIGIN_TERM_BLOCK as load_configuration left it
    metagraph,          \* network snapshot: uids, stake, ip
    miner_status,       \* Validator.miner_status: known, job_id
    height,             \* the ledger's current block
    last_block,         \* the block at which the run ends
    commits,            \* the ledger's latest commitment of every validator uid
    running,            \* the validator uids whose process runs this code
    self,               \* the fields of the Validator instance of each of them
    threads,            \* the live benchmark threads of each of them
    tick_log,           \* what the last call of forward did
    published,          \* successful publishes since the last rollover
    env,                \* the failures the environment of the run may produce
    result              \* the value of a function applied on its own

\* what no step of the scheduler changes
static == << ORIGIN_TERM_BLOCK, metagraph, miner_status, last_block, running,
             env, result >>

vars == << static, height, commits, self, threads, tick_log, published >>

\* Python's None for integer-valued fields (uids are >= 0)
None == -1

Range(s) == {s[i] : i \in 1..Len(s)}

\* [x for x in s if P(x)] keeps the order of s
Indices(s) == [i \in 1..Len(s) |-> i]

(***************************************************************************)
(* cluster_miners (validator.py 321-419).                                  *)
(* A network snapshot is metagraph.uids = 0..n-1 with, per uid, a stake,   *)
(* an address (ip_to_int of the dotted quad, 0 for "0.0.0.0") and the      *)
(* job_id of the last status.                                              *)
(***************************************************************************)

\* validator.py 344: the eligible miners, in metagraph.uids order
EligibleMiners(mg, ms) ==
    SelectSeq(mg.uids, LAMBDA uid :
        /\ mg.stake[uid] < VALIDATOR_MIN_STAKE
        /\ mg.ip[uid] # 0
        /\ ms.job_id[uid] >= 0)

\* a filter that lets every eligible miner through
NoDedupFilteredMiners(mg, ms) == EligibleMiners(mg, ms)

\* a filter that lets the last uid of every address through
KeepLastFilteredMiners(mg, ms) ==
    LET m == EligibleMiners(mg, ms)
        keep == SelectSeq(Indices(m), LAMBDA i :
                    \A j \in (i + 1)..Len(m) : mg.ip[m[j]] # mg.ip[m[i]])
    IN  [k \in 1..Len(keep) |-> m[keep[k]]]

\* validator.py 353-362: the first uid of every address survives
FilteredMiners(mg, ms) ==
    LET m == EligibleMiners(mg, ms)
        keep == SelectSeq(Indices(m), LAMBDA i :
                    \A j \in 1..(i - 1) : mg.ip[m[j]] # mg.ip[m[i]])
    IN  [k \in 1..Len(keep) |-> m[keep[k]]]

\* validator.py 376-383: dict label -> members, in order of first appearance
GroupsList(ips, labels) ==
    LET n == Len(ips)
        firsts == SelectSeq(Indices(ips), LAMBDA i :
                    \A j \in 1..(i - 1) : labels[j] # labels[i])
        members(l) == SelectSeq(Indices(ips), LAMBDA i : labels[i] = l)
    IN  [k \in 1..Len(firsts) |->
            LET mem == members(labels[firsts[k]])
            IN  [x \in 1..Len(mem) |-> ips[mem[x]]]]

\* validator.py 391-396: the exact chunks of 4 of a group longer than 4
FullChunks(group) ==
    [c \in 1..(Len(group) \div GROUP_SIZE) |->
        SubSeq(group, (c - 1) * GROUP_SIZE + 1, c * GROUP_SIZE)]

TailChunk(group) ==
    SubSeq(group, (Len(group) \div GROUP_SIZE) * GROUP_SIZE + 1, Len(group))

\* validator.py 385-400: final_groups and leftovers after the loop over
\* groups_list, as the record [final, leftovers]
RECURSIVE SplitGroups(_, _, _)
SplitGroups(groups_list, final, leftovers) ==
    IF groups_list = << >> THEN [final |-> final, leftovers |-> leftovers]
    ELSE LET group == Head(groups_list)
             rest == Tail(groups_list)
         IN  IF Len(group) > GROUP_SIZE
             THEN SplitGroups(rest, final \o FullChunks(group),
                              leftovers \o TailChunk(group))
             ELSE IF Len(group) < GROUP_SIZE
             THEN SplitGroups(rest, final, leftovers \o group)
             ELSE SplitGroups(rest, Append(final, group), leftovers)

\* validator.py 403-405: while len(leftovers) >= 4
RECURSIVE MergeLeftovers(_, _)
MergeLeftovers(final, leftovers) ==
    IF Len(leftovers) >= GROUP_SIZE
    THEN MergeLeftovers(Append(final, SubSeq(leftovers, 1, GROUP_SIZE)),
                        SubSeq(leftovers, GROUP_SIZE + 1, Len(leftovers)))
    ELSE [final |-> final, leftovers |-> leftovers]

\* validator.py 407: the leftovers are appended whatever their length
FinalGroups(final, leftovers) == Append(final, leftovers)

\* validator.py 412-417: ips back to uids (ips.index finds the first)
UidOfIp(ip, ips, miner_uids) ==
    miner_uids[CHOOSE i \in 1..Len(ips) :
                  ips[i] = ip /\ \A j \in 1..(i - 1) : ips[j] # ip]

\* the label vectors KMeans(n_clusters = k).fit(...).labels_ can take
LabelChoices(n, k) == [1..n -> 0..(k - 1)]

\* the orders random.shuffle can leave a list of m groups in
ShuffleChoices(m) == Permutations(1..m)

\* validator.py 365-417: the groups of uids before the shuffle, for the
\* labels KMeans returned
UidGroups(mg, ms, labels) ==
    LET miner_uids == FilteredMiners(mg, ms)
        ips == [i \in 1..Len(miner_uids) |-> mg.ip[miner_uids[i]]]
        split == SplitGroups(GroupsList(ips, labels), << >>, << >>)
        merged == MergeLeftovers(split.final, split.leftovers)
        final_groups == FinalGroups(merged.final, merged.leftovers)
    IN  [g \in 1..Len(final_groups) |->
            [x \in 1..Len(final_groups[g]) |->
                UidOfIp(final_groups[g][x], ips, miner_uids)]]

\* validator.py 418: random.shuffle(uid_groups) with the permutation perm
Shuffle(uid_groups, perm) ==
    [g \in 1..Len(uid_groups) |-> uid_groups[perm[g]]]

\* the number of clusters KMeans is asked for (validator.py 370)
GroupCount(mg, ms) == Len(FilteredMiners(mg, ms)) \div GROUP_SIZE

\* cluster_miners (validator.py 341-419): every result the call can have on
\* a snapshot, over the labels of KMeans and the order of the shuffle.  A
\* result is [raised, groups]; raised is KMeans refusing n_clusters = 0.
ClusterOutcomes(mg, ms) ==
    IF ~ms.known THEN {[raised |-> FALSE, groups |-> << >>]}
    ELSE IF Len(EligibleMiners(mg, ms)) = 0
    THEN {[raised |-> FALSE, groups |-> << >>]}
    ELSE IF GroupCount(mg, ms) = 0
    THEN {[raised |-> TRUE, groups |-> << >>]}
    ELSE UNION {
           LET uid_groups == UidGroups(mg, ms, labels)
           IN  {[raised |-> FALSE, groups |-> Shuffle(uid_groups, perm)] :
                   perm \in ShuffleChoices(Len(uid_groups))} :
           labels \in LabelChoices(Len(FilteredMiners(mg, ms)), GroupCount(mg, ms))}

(***************************************************************************)
(* Values on the ledger and in the artifact store.                         *)
(***************************************************************************)

\* hash(str(x)) in the process of validator p: Python salts the hash of a
\* string per process, so equal strings hash alike only within one process
Hash(p, x) == << p, x >>

NoHash == << None, None >>
NoGroupHash == << None, << >> >>
EmptyMap == [u \in {} |-> 0]

\* A version of an artifact is immutable: a version handle is modelled by
\* the content stored under it.  upload_state (validator.py 309-319):
NoArtifact ==
    [some |-> FALSE, file |-> None, seed |-> None, hash |-> NoHash,
     groups |-> << >>, grouphash |-> NoGroupHash]

StateArtifact(file, seed, hash, groups, grouphash) ==
    [some |-> TRUE, file |-> file, seed |-> seed, hash |-> hash,
     groups |-> groups, grouphash |-> grouphash]

\* a key of a mapping held in memory: the integer u
IntKey(u) == << "int", u >>

\* a key that stays the integer it was
SameJsonKey(u) == << "int", u >>

\* json.dumps (validator.py 283) writes the key u of a mapping as the
\* string str(u), and json.load (validator.py 302) reads it back as that
\* string; in Python the string "5" is not equal to the integer 5
JsonKey(u) == << "str", u >>

\* the content of the file json.dumps wrote for the mapping state, as
\* json.load returns it
JsonRoundTrip(state) ==
    [k \in {JsonKey(u) : u \in DOMAIN state} |-> state[k[2]]]

NoData == [k \in {} |-> 0]

\* the version upload_to_wandb returns at validator.py 207 for the file
\* benchmark-<term> holding the mapping data, or None
NoBenchmark == [some |-> FALSE, file |-> None, data |-> NoData]

BenchmarkVersion(file, data) == [some |-> TRUE, file |-> file, data |-> data]

\* get_commit_data returning None
NoCommit ==
    [some |-> FALSE, type |-> "none", term |-> None, block |-> None,
     seedhash |-> NoHash, seed |-> None, grouphash |-> NoGroupHash,
     version |-> NoArtifact, benchmark_version |-> NoBenchmark]

\* validator.py 111-116
SeedhashCommit(term, block, seedhash, benchmark_version) ==
    [NoCommit EXCEPT !.some = TRUE, !.type = "seedhash", !.term = term,
                     !.block = block, !.seedhash = seedhash,
                     !.benchmark_version = benchmark_version]

\* validator.py 129-136
SeedCommit(term, block, seedhash, seed, grouphash, version) ==
    [NoCommit EXCEPT !.some = TRUE, !.type = "seed", !.term = term,
                     !.block = block, !.seedhash = seedhash, !.seed = seed,
                     !.grouphash = grouphash, !.version = version]

Seeds == 0..MaxSeed

(***************************************************************************)
(* Term Clock (validator.py 86-89).                                        *)
(***************************************************************************)
TermOf(h) == (h - ORIGIN_TERM_BLOCK) \div BLOCKS_PER_TERM

BiasOf(h) == (h - ORIGIN_TERM_BLOCK) % BLOCKS_PER_TERM

update_term_bias(s, h) ==
    [s EXCEPT !.block_height = h, !.current_term = TermOf(h),
              !.term_bias = BiasOf(h)]

\* validator.py 65-84, for a next_seed that exists; r is random.randint
init_term_variables(s, r, h) ==
    update_term_bias(
        [s EXCEPT !.is_seedhash_commited = FALSE,
                  !.is_seed_commited = FALSE,
                  !.is_set_weight = FALSE,
                  !.is_seed_shared = FALSE,
                  !.seed = s.next_seed,
                  !.next_seed = r,
                  !.voted_uid = None,
                  !.voted_groups = << >>,
                  !.groups = [some |-> FALSE, val |-> << >>],
                  !.is_uploaded_group = NoArtifact,
                  !.benchmark_state = EmptyMap,
                  !.benchmark_thread = "None",
                  !.benchmark_version = NoBenchmark,
                  !.benchmark_finished = FALSE], h)

\* validator.py 53-61: the instance after __init__, which finds no next_seed
NewValidator(r, h) ==
    init_term_variables(
        [term |-> 0, is_seedhash_commited |-> FALSE, is_seed_commited |-> FALSE,
         is_set_weight |-> FALSE, is_seed_shared |-> FALSE, seed |-> 0,
         next_seed |-> 0, voted_uid |-> None, voted_groups |-> << >>,
         groups |-> [some |-> FALSE, val |-> << >>],
         is_uploaded_group |-> NoArtifact, benchmark_state |-> EmptyMap,
         benchmark_thread |-> "None", benchmark_version |-> NoBenchmark,
         benchmark_finished |-> FALSE, block_height |-> h, current_term |-> 0,
         term_bias |-> 0], r, h)

(***************************************************************************)
(* Vote Resolver: get_vote_result (validator.py 223-276).                  *)
(***************************************************************************)

\* validator.py 225 (and 438)
ValidatorUids(mg) ==
    SelectSeq(mg.uids, LAMBDA uid : mg.stake[uid] >= VALIDATOR_MIN_STAKE)

\* validator.py 234: the test that discards a commitment
Discarded(commit, term) ==
    \/ commit.term # term
    \/ commit.block % BLOCKS_PER_TERM > BLOCKS_SHARE_SEED

\* validator.py 229-245: the uids whose commitment enters commits
CollectedUids(mg, ledger, term) ==
    SelectSeq(ValidatorUids(mg), LAMBDA uid :
        ledger[uid].some /\ ~Discarded(ledger[uid], term))

\* validator.py 237-245 reads the keys of a seed commitment; a commitment
\* without them raises KeyError
LacksSeedKeys(commit) == commit.type # "seed"

\* download_from_wandb (validator.py 295-307) of state-<uid>, file <term>,
\* at the committed version; fetched tells whether the store answered
Download(commit, term, fetched) ==
    IF fetched /\ commit.version.some /\ commit.version.file = term
    THEN commit.version ELSE NoArtifact

\* validator.py 251-259
IsValid(commit, term, fetched) ==
    LET data == Download(commit, term, fetched)
    IN  data.some /\ commit.seedhash = data.hash

\* a valid list that keeps every collected commitment
UnfilteredValidCommits(mg, ledger, term, fetch) == CollectedUids(mg, ledger, term)

\* validator.py 264
ValidCommits(mg, ledger, term, fetch) ==
    SelectSeq(CollectedUids(mg, ledger, term), LAMBDA uid :
        IsValid(ledger[uid], term, fetch[uid]))

RECURSIVE SumOfSeeds(_, _)
SumOfSeeds(valid, ledger) ==
    IF valid = << >> THEN 0
    ELSE ledger[Head(valid)].seed + SumOfSeeds(Tail(valid), ledger)

\* an index that ignores the seeds
LastIndexVotedIndex(valid, ledger) == Len(valid) - 1

\* validator.py 270-271: the index of the voted commitment (0-based)
VotedIndex(valid, ledger) == SumOfSeeds(valid, ledger) % Len(valid)

\* get_vote_result of a validator whose term is term, reading ledger, with
\* fetch[uid] the outcome of the download for uid.  The result is
\* [raised, uid, groups] with the locals valid_commits (their uids) and
\* sum_of_seeds % len(valid_commits) as valid and index.
NoVote ==
    [raised |-> FALSE, uid |-> None, groups |-> << >>, index |-> None,
     valid |-> << >>]

get_vote_result(mg, ledger, term, fetch) ==
    LET collected == CollectedUids(mg, ledger, term)
        valid == ValidCommits(mg, ledger, term, fetch)
    IN  IF \E i \in 1..Len(collected) : LacksSeedKeys(ledger[collected[i]])
        THEN [NoVote EXCEPT !.raised = TRUE]
        ELSE IF Len(valid) = 0
        THEN NoVote
        ELSE LET index == VotedIndex(valid, ledger)
                 voted == valid[index + 1]
             IN  [raised |-> FALSE, uid |-> voted,
                  groups |-> Download(ledger[voted], term, TRUE).groups,
                  index |-> index, valid |-> valid]

(***************************************************************************)
(* forward (validator.py 91-154).  One call is one step.  Its stages work  *)
(* on a context: the instance s, the ledger's commitments c, the ledger    *)
(* height h the stage reads, whether an exception ended the call, and the  *)
(* record of what the call did.                                            *)
(***************************************************************************)
NoLog ==
    [rolled |-> FALSE, seedhash_attempt |-> FALSE, seedhash_ok |-> FALSE,
     upload |-> FALSE, seed_attempt |-> FALSE, seed_ok |-> FALSE,
     vote |-> FALSE, thread_start |-> FALSE, raised |-> FALSE,
     seedhash_window |-> FALSE, seed_window |-> FALSE, vote_window |-> FALSE,
     seedhash_flag |-> FALSE, seed_flag |-> FALSE, uploaded |-> FALSE]

\* the publishes of a term: how many succeeded, whether one was rejected
NoPublished ==
    [seedhash |-> 0, seed |-> 0, seedhash_rejected |-> FALSE,
     seed_rejected |-> FALSE]

\* a rollover that records the term and resets nothing
RolloverWithoutReset(ctx, r) ==
    LET s == update_term_bias(ctx.s, ctx.h)
    IN  IF s.current_term > s.term
        THEN [ctx EXCEPT !.s = [s EXCEPT !.term = s.current_term],
                         !.log.rolled = TRUE,
                         !.pub = NoPublished]
        ELSE [ctx EXCEPT !.s = s]

\* validator.py 101-106
Rollover(ctx, r) ==
    LET s == update_term_bias(ctx.s, ctx.h)
    IN  IF s.current_term > s.term
        THEN [ctx EXCEPT !.s = init_term_variables(
                                   [s EXCEPT !.term = s.current_term], r, ctx.h),
                         !.log.rolled = TRUE,
                         !.pub = NoPublished]
        ELSE [ctx EXCEPT !.s = s]

\* validator.py 109: the seedhash window
InSeedhashWindow(term_bias) ==
    term_bias >= BLOCKS_SEEDHASH_START /\ term_bias < BLOCKS_SEEDHASH_END

\* a guard that ignores the flag
AlwaysPublishSeedhash(s) == TRUE

\* validator.py 110: the guard of the seedhash publish
MayPublishSeedhash(s) == ~s.is_seedhash_commited

\* validator.py 108-118; ok is the outcome of commit_data (neuron.py
\* 222-233), d the blocks that pass until the commitment is on the ledger
SeedhashPhase(v, ctx, ok, d) ==
    LET s == ctx.s
    IN  IF ctx.raised \/ ~InSeedhashWindow(s.term_bias) THEN ctx
        ELSE IF ~MayPublishSeedhash(s)
        THEN [ctx EXCEPT !.log.seedhash_window = TRUE,
                         !.log.seedhash_flag = s.is_seedhash_commited]
        ELSE LET commit == SeedhashCommit(s.term, ctx.h + d,
                               Hash(v, s.next_seed), s.benchmark_version)
             IN  [ctx EXCEPT
                    !.s = update_term_bias(
                              [s EXCEPT !.is_seedhash_commited = ok], ctx.h + d),
                    !.c = IF ok THEN [ctx.c EXCEPT ![v] = commit] ELSE ctx.c,
                    !.h = ctx.h + d,
                    !.log.seedhash_window = TRUE,
                    !.log.seedhash_flag = s.is_seedhash_commited,
                    !.log.seedhash_attempt = TRUE,
                    !.log.seedhash_ok = ok,
                    !.pub.seedhash = IF ok THEN ctx.pub.seedhash + 1
                                     ELSE ctx.pub.seedhash,
                    !.pub.seedhash_rejected = ctx.pub.seedhash_rejected \/ ~ok]

\* validator.py 128: the guard of the seed publish
MayPublishSeed(s) == s.is_uploaded_group.some /\ ~s.is_seed_commited

\* validator.py 120-138; cl is the result of cluster_miners, up whether
\* upload_to_wandb returned a version, ok the outcome of commit_data
SeedPhase(v, ctx, cl, up, ok, d) ==
    LET s == ctx.s
    IN  IF ctx.raised \/ ~(s.term_bias < BLOCKS_SHARE_SEED) THEN ctx
        ELSE IF ~s.groups.some /\ cl.raised
        THEN [ctx EXCEPT !.raised = TRUE, !.log.raised = TRUE,
                         !.log.seed_window = TRUE]
        ELSE
        LET s1 == IF ~s.groups.some
                  THEN [s EXCEPT !.groups = [some |-> TRUE, val |-> cl.groups]]
                  ELSE s
            uploads == ~s1.is_uploaded_group.some
            artifact == StateArtifact(s1.term, s1.seed, Hash(v, s1.seed),
                                      s1.groups.val, Hash(v, s1.groups.val))
            s2 == IF uploads
                  THEN [s1 EXCEPT !.is_uploaded_group =
                                      IF up THEN artifact ELSE NoArtifact]
                  ELSE s1
            attempt == MayPublishSeed(s2)
            commit == SeedCommit(s2.term, ctx.h + d, Hash(v, s2.seed), s2.seed,
                                 Hash(v, s2.groups.val), s2.is_uploaded_group)
            s3 == IF attempt THEN [s2 EXCEPT !.is_seed_commited = ok] ELSE s2
        IN  [ctx EXCEPT
               !.s = update_term_bias(s3, ctx.h + d),
               !.c = IF attempt /\ ok THEN [ctx.c EXCEPT ![v] = commit] ELSE ctx.c,
               !.h = ctx.h + d,
               !.log.seed_window = TRUE,
               !.log.upload = uploads,
               !.log.uploaded = s2.is_uploaded_group.some,
               !.log.seed_flag = s2.is_seed_commited,
               !.log.seed_attempt = attempt,
               !.log.seed_ok = attempt /\ ok,
               !.pub.seed = IF attempt /\ ok THEN ctx.pub.seed + 1
                            ELSE ctx.pub.seed,
               !.pub.seed_rejected = ctx.pub.seed_rejected \/ (attempt /\ ~ok)]

\* validator.py 141: the vote window
InVoteWindow(term_bias) ==
    term_bias >= BLOCKS_SHARE_SEED /\ term_bias <= BLOCKS_START_BENCHMARK

\* a guard that ignores the cached winner
AlwaysVote(s) == TRUE

\* validator.py 142: the guard of the vote
MayVote(s) == s.voted_uid = None

\* validator.py 140-143
VotePhase(ctx, mg, fetch) ==
    LET s == ctx.s
    IN  IF ctx.raised \/ ~InVoteWindow(s.term_bias) THEN ctx
        ELSE IF ~MayVote(s) THEN [ctx EXCEPT !.log.vote_window = TRUE]
        ELSE LET r == get_vote_result(mg, ctx.c, s.term, fetch)
             IN  IF r.raised
                 THEN [ctx EXCEPT !.raised = TRUE, !.log.raised = TRUE,
                                  !.log.vote_window = TRUE, !.log.vote = TRUE]
                 ELSE [ctx EXCEPT !.s.voted_uid = r.uid,
                                  !.s.voted_groups = r.groups,
                                  !.log.vote_window = TRUE, !.log.vote = TRUE]

\* validator.py 146: the benchmark window
InBenchmarkWindow(term_bias) ==
    term_bias >= BLOCKS_START_BENCHMARK /\ term_bias < BLOCKS_SEEDHASH_START

\* a liveness test that never finds a thread
NoLiveThread(ths) == FALSE

\* a live thread record of validator v that is self.benchmark_thread
HasLiveThread(ths) == \E i \in 1..Len(ths) : ths[i].cur

\* a guard that does not look at benchmark_finished
StartsThreadAfterFinish(s, ths) ==
    /\ InBenchmarkWindow(s.term_bias)
    /\ (s.benchmark_thread = "None" \/ ~HasLiveThread(ths))

\* validator.py 147: the guard of start_benchmark_thread
StartsThread(s, ths) ==
    /\ InBenchmarkWindow(s.term_bias)
    /\ ~s.benchmark_finished
    /\ (s.benchmark_thread = "None" \/ ~HasLiveThread(ths))

\* threading.Thread(target = self.benchmark) before its first statement
NewThread(s) ==
    [cur |-> TRUE, started_term |-> s.term, pc |-> "start",
     current_term |-> None, term_bias |-> None, current_group_id |-> None,
     current_group |-> << >>, version |-> NoBenchmark, last_probed |-> None]

\* validator.py 79-81: after a rollover the old thread is no longer
\* self.benchmark_thread
Orphaned(ths) == [i \in 1..Len(ths) |-> [ths[i] EXCEPT !.cur = FALSE]]

\* validator.py 145-158
BenchmarkPhase(ctx, ths) ==
    LET ths1 == IF ctx.log.rolled THEN Orphaned(ths) ELSE ths
    IN  IF ~ctx.raised /\ StartsThread(ctx.s, ths1)
        THEN [ctx |-> [ctx EXCEPT !.s.benchmark_thread = "thread",
                                  !.log.thread_start = TRUE],
              ths |-> Append(ths1, NewThread(ctx.s))]
        ELSE [ctx |-> ctx, ths |-> ths1]

\* The outcomes the environment of the run allows an external call: of
\* commit_data (neuron.py 222-233), of upload_to_wandb (validator.py
\* 278-293) and of download_from_wandb (validator.py 295-307)
CommitOutcomes == IF env.commit_fails THEN BOOLEAN ELSE {TRUE}

UploadOutcomes == IF env.upload_fails THEN BOOLEAN ELSE {TRUE}

BenchmarkUploadOutcomes == IF env.benchmark_upload_fails THEN BOOLEAN ELSE {TRUE}

FetchOutcomes == IF env.fetch_fails THEN BOOLEAN ELSE {TRUE}

\* the blocks that may pass while a commit or an upload is under way
Lags == 0..env.lag

\* The outcomes of the external calls a stage makes: only the calls the
\* stage reaches have an outcome.
RolloverInputs(ctx) ==
    IF TermOf(ctx.h) > ctx.s.term THEN Seeds ELSE {0}

SeedhashInputs(ctx) ==
    IF ~ctx.raised /\ InSeedhashWindow(ctx.s.term_bias) /\ MayPublishSeedhash(ctx.s)
    THEN CommitOutcomes \X Lags ELSE {<< FALSE, 0 >>}

SeedInputs(ctx, mg, ms) ==
    LET s == ctx.s
        inwin == ~ctx.raised /\ s.term_bias < BLOCKS_SHARE_SEED
        busy == inwin /\ (~s.is_uploaded_group.some \/ ~s.is_seed_commited)
    IN  (IF inwin /\ ~s.groups.some THEN ClusterOutcomes(mg, ms)
         ELSE {[raised |-> FALSE, groups |-> << >>]})
        \X (IF inwin /\ ~s.is_uploaded_group.some THEN UploadOutcomes ELSE {FALSE})
        \X (IF busy THEN CommitOutcomes ELSE {FALSE})
        \X (IF busy THEN Lags ELSE {0})

VoteInputs(ctx, mg) ==
    IF ~ctx.raised /\ InVoteWindow(ctx.s.term_bias) /\ MayVote(ctx.s)
    THEN [Range(CollectedUids(mg, ctx.c, ctx.s.term)) -> FetchOutcomes]
    ELSE {EmptyMap}

\* forward: the rollover, then the four phases in the order of the code
Forward(v) ==
    LET ctx0 == [s |-> self[v], c |-> commits, h |-> height, raised |-> FALSE,
                 log |-> NoLog, pub |-> published[v]]
    IN  \E r \in RolloverInputs(ctx0) :
        LET ctx1 == Rollover(ctx0, r)
        IN  \E i1 \in SeedhashInputs(ctx1) :
            LET ctx2 == SeedhashPhase(v, ctx1, i1[1], i1[2])
            IN  \E i2 \in SeedInputs(ctx2, metagraph, miner_status) :
                LET ctx3 == SeedPhase(v, ctx2, i2[1], i2[2], i2[3], i2[4])
                IN  \E fetch \in VoteInputs(ctx3, metagraph) :
                    LET ctx4 == VotePhase(ctx3, metagraph, fetch)
                        fin == BenchmarkPhase(ctx4, threads[v])
                    IN  /\ fin.ctx.h <= last_block
                        /\ self' = [self EXCEPT ![v] = fin.ctx.s]
                        /\ commits' = fin.ctx.c
                        /\ height' = fin.ctx.h
                        /\ threads' = [threads EXCEPT ![v] = fin.ths]
                        /\ tick_log' = [tick_log EXCEPT ![v] = fin.ctx.log]
                        /\ published' = [published EXCEPT ![v] = fin.ctx.pub]
                        /\ UNCHANGED << static >>

ForwardStep == \E v \in running : Forward(v)

(***************************************************************************)
(* benchmark (validator.py 160-221), one step per blocking call.  A thread *)
(* is the record of its local variables; threads[v] holds the live ones.   *)
(***************************************************************************)
RemoveAt(seq, i) == SubSeq(seq, 1, i - 1) \o SubSeq(seq, i + 1, Len(seq))

\* validator.py 163-165
ThreadStart(v, i) ==
    LET th == threads[v][i]
    IN  /\ th.pc = "start"
        /\ threads' = [threads EXCEPT ![v][i] =
               [th EXCEPT !.pc = "loop",
                          !.current_term = self[v].current_term,
                          !.term_bias = BiasOf(height)]]
        /\ UNCHANGED << static, height, commits, self, tick_log, published >>

\* a test that never sees another term
NeverSeesNewTerm(th, s) == FALSE

\* validator.py 168: the thread has seen another term than the one it cached
SeesNewTerm(th, s) == th.current_term # s.current_term

\* a group index that runs one window ahead
AddOneGroupId(term_bias) ==
    (term_bias - BLOCKS_START_BENCHMARK) \div BLOCKS_PER_GROUP + 1

\* validator.py 181
CurrentGroupId(term_bias) ==
    (term_bias - BLOCKS_START_BENCHMARK) \div BLOCKS_PER_GROUP

\* validator.py 168-177: the two breaks that end the thread without a result
ThreadExit(v, i) ==
    LET th == threads[v][i]
    IN  /\ th.pc = "loop"
        /\ \/ SeesNewTerm(th, self[v])
           \/ /\ th.term_bias >= BLOCKS_START_BENCHMARK
              /\ self[v].voted_uid = None
        /\ threads' = [threads EXCEPT ![v] = RemoveAt(threads[v], i)]
        /\ UNCHANGED << static, height, commits, self, tick_log, published >>

\* tests that let a thread on without a voted uid
PastChecksWithoutVote(th, s) ==
    /\ th.pc = "loop"
    /\ ~SeesNewTerm(th, s)
    /\ th.term_bias >= BLOCKS_START_BENCHMARK

\* the thread is past the three tests of validator.py 168-177
PastChecks(th, s) ==
    /\ th.pc = "loop"
    /\ ~SeesNewTerm(th, s)
    /\ th.term_bias >= BLOCKS_START_BENCHMARK
    /\ s.voted_uid # None

\* validator.py 182-185
ThreadFinish(v, i) ==
    LET th == threads[v][i]
    IN  /\ PastChecks(th, self[v])
        /\ CurrentGroupId(th.term_bias) >= Len(self[v].voted_groups)
        /\ self' = [self EXCEPT ![v].benchmark_finished = TRUE]
        /\ threads' = [threads EXCEPT ![v] = RemoveAt(threads[v], i)]
        /\ UNCHANGED << static, height, commits, tick_log, published >>

\* validator.py 186-192: the probes of one group leave; a uid the snapshot
\* does not hold raises at 189 and the iteration starts over unchanged
ThreadDispatch(v, i) ==
    LET th == threads[v][i]
        gid == CurrentGroupId(th.term_bias)
    IN  /\ PastChecks(th, self[v])
        /\ gid < Len(self[v].voted_groups)
        /\ Range(self[v].voted_groups[gid + 1]) \subseteq Range(metagraph.uids)
        /\ threads' = [threads EXCEPT ![v][i] =
               [th EXCEPT !.pc = "query",
                          !.current_group_id = gid,
                          !.current_group = self[v].voted_groups[gid + 1],
                          !.last_probed = IF TermOf(height) = th.current_term
                                          THEN gid ELSE th.last_probed]]
        /\ UNCHANGED << static, height, commits, self, tick_log, published >>

\* what responses[i] leads to at validator.py 194-199: the sentinel -1 for no
\* response, else the elapsed time.  The miners of a group are alike, so the
\* ones that may stay silent are its first env.timeouts members.
ResponseChoices(group) ==
    {r \in [Range(group) -> {-1, 1}] :
        \A i \in 1..Len(group) : r[group[i]] = -1 => i <= env.timeouts}

\* validator.py 193-199
RecordResponses(state, responses) ==
    [u \in DOMAIN state \cup DOMAIN responses |->
        IF u \in DOMAIN responses THEN responses[u] ELSE state[u]]

\* validator.py 192-207: the responses arrive, the map is updated and
\* uploaded; up tells whether upload_to_wandb returned a version
ThreadCollect(v, i) ==
    LET th == threads[v][i]
    IN  /\ th.pc = "query"
        /\ \E responses \in ResponseChoices(th.current_group),
              up \in BenchmarkUploadOutcomes :
            LET state == RecordResponses(self[v].benchmark_state, responses)
            IN  /\ self' = [self EXCEPT ![v].benchmark_state = state]
                /\ threads' = [threads EXCEPT ![v][i] =
                       [th EXCEPT !.pc = "setversion",
                                  !.version =
                                      IF up
                                      THEN BenchmarkVersion(self[v].current_term,
                                                            JsonRoundTrip(state))
                                      ELSE NoBenchmark]]
        /\ UNCHANGED << static, height, commits, tick_log, published >>

\* validator.py 192, 217-220: the query raises and the loop starts over
ThreadQueryRaises(v, i) ==
    LET th == threads[v][i]
    IN  /\ th.pc = "query"
        /\ env.query_fails
        /\ threads' = [threads EXCEPT ![v][i] = [th EXCEPT !.pc = "loop"]]
        /\ UNCHANGED << static, height, commits, self, tick_log, published >>

\* validator.py 208
ThreadSetVersion(v, i) ==
    LET th == threads[v][i]
    IN  /\ th.pc = "setversion"
        /\ self' = [self EXCEPT ![v].benchmark_version = th.version]
        /\ threads' = [threads EXCEPT ![v][i] = [th EXCEPT !.pc = "wait"]]
        /\ UNCHANGED << static, height, commits, tick_log, published >>

\* validator.py 211-215: the wait ends when the in-term offset has changed
ThreadWait(v, i) ==
    LET th == threads[v][i]
    IN  /\ th.pc = "wait"
        /\ BiasOf(height) # th.term_bias
        /\ threads' = [threads EXCEPT ![v][i] =
               [th EXCEPT !.pc = "loop", !.term_bias = BiasOf(height)]]
        /\ UNCHANGED << static, height, commits, self, tick_log, published >>

\* a step of one of the live threads
ThreadStartStep ==
    \E v \in running : \E i \in 1..Len(threads[v]) : ThreadStart(v, i)

ThreadExitStep ==
    \E v \in running : \E i \in 1..Len(threads[v]) : ThreadExit(v, i)

ThreadFinishStep ==
    \E v \in running : \E i \in 1..Len(threads[v]) : ThreadFinish(v, i)

ThreadDispatchStep ==
    \E v \in running : \E i \in 1..Len(threads[v]) : ThreadDispatch(v, i)

ThreadCollectStep ==
    \E v \in running : \E i \in 1..Len(threads[v]) : ThreadCollect(v, i)

ThreadQueryRaisesStep ==
    \E v \in running : \E i \in 1..Len(threads[v]) : ThreadQueryRaises(v, i)

ThreadSetVersionStep ==
    \E v \in running : \E i \in 1..Len(threads[v]) : ThreadSetVersion(v, i)

ThreadWaitStep ==
    \E v \in running : \E i \in 1..Len(threads[v]) : ThreadWait(v, i)

(***************************************************************************)
(* The environment: the ledger grows, and a validator that does not run    *)
(* this code publishes what it likes under its own uid.                    *)
(***************************************************************************)
\* the main loop is called again and again: the ledger does not get more
\* than env.stale blocks ahead of the block a running validator last read
NewBlock ==
    /\ height < last_block
    /\ \A v \in running : height - self[v].block_height < env.stale
    /\ height' = height + 1
    /\ UNCHANGED << static, commits, self, threads, tick_log, published >>

\* group lists a foreign validator uploads, with more groups than the
\* benchmark window holds: one with a uid the snapshot does not hold, one
\* with miners of the snapshot only
UnknownUidGroups == << <<2>>, <<3>>, <<99>>, <<4>> >>

LongGroups == << <<2>>, <<3>>, <<4>>, <<5>> >>

PeerGroups == env.groups

\* the commitments of one shape a foreign validator u may publish for term
\* t at block b
PeerShape(shape, u, t, b) ==
    CASE shape = "reveal" ->
            \* a reveal as the code makes it
            { SeedCommit(t, b, Hash(u, s), s, Hash(u, g),
                         StateArtifact(t, s, Hash(u, s), g, Hash(u, g))) :
                  s \in Seeds, g \in PeerGroups }
      [] shape = "forged_seedhash" ->
            \* a seedhash that is not the hash of the seed, repeated in the
            \* artifact
            { SeedCommit(t, b, Hash(u, 1), 0, Hash(u, << >>),
                         StateArtifact(t, 0, Hash(u, 1), << >>, Hash(u, << >>))) }
      [] shape = "foreign_artifact" ->
            \* an artifact whose hash differs from the committed seedhash
            { SeedCommit(t, b, Hash(u, 0), 0, Hash(u, << >>),
                         StateArtifact(t, 0, Hash(u, 1), << >>, Hash(u, << >>))) }
      [] shape = "forged_grouphash" ->
            \* a grouphash that is not the hash of the uploaded groups
            { SeedCommit(t, b, Hash(u, 0), 0, Hash(u, << >>),
                         StateArtifact(t, 0, Hash(u, 0), << <<2>> >>,
                                       Hash(u, << <<2>> >>))) }
      [] shape = "seedhash" ->
            \* a seedhash commitment carrying the current term
            { SeedhashCommit(t, b, Hash(u, 0), NoBenchmark) }

PeerShapes ==
    {"reveal", "forged_seedhash", "foreign_artifact", "forged_grouphash",
     "seedhash"}

PeerCommits(u, t, b) == UNION {PeerShape(shape, u, t, b) : shape \in env.shapes}

PeerPublish ==
    /\ BiasOf(height) \in env.peer_biases
    /\ \E u \in Range(ValidatorUids(metagraph)) \ running :
        \E c \in PeerCommits(u, TermOf(height), height) :
            /\ commits' = [commits EXCEPT ![u] = c]
            /\ UNCHANGED << static, height, self, threads, tick_log, published >>

(***************************************************************************)
(* The scheduler of one validator among foreign validators.                *)
(***************************************************************************)
\* the validator processes of the model
Validators == {0, 1}

\* a snapshot of nv validators followed by nm miners with their own address
Snapshot(nv, nm) ==
    [uids |-> [i \in 1..(nv + nm) |-> i - 1],
     stake |-> [u \in 0..(nv + nm - 1) |->
                  IF u < nv THEN VALIDATOR_MIN_STAKE ELSE 0],
     ip |-> [u \in 0..(nv + nm - 1) |-> u + 1]]

KnownStatus(mg) == [known |-> TRUE, job_id |-> [u \in Range(mg.uids) |-> 0]]

NoResult ==
    [called |-> FALSE, raised |-> FALSE, groups |-> << >>, uid |-> None,
     index |-> None, valid |-> << >>, commits |-> << >>,
     miner_uids |-> << >>, responses |-> << >>]

InitScheduler(run, origins, miner_counts, start_bias, blocks, e) ==
    /\ ORIGIN_TERM_BLOCK \in origins
    /\ \E nm \in miner_counts : metagraph = Snapshot(Cardinality(Validators), nm)
    /\ miner_status = KnownStatus(metagraph)
    /\ height = ORIGIN_TERM_BLOCK + BLOCKS_PER_TERM + start_bias
    /\ last_block = height + blocks
    /\ commits = [u \in Validators |-> NoCommit]
    /\ running = run
    /\ env = e
    /\ self \in {f \in [Validators -> {NewValidator(r, height) : r \in Seeds}] :
                    \A v \in Validators \ run : f[v] = NewValidator(0, height)}
    /\ threads = [v \in Validators |-> << >>]
    /\ tick_log = [v \in Validators |-> NoLog]
    /\ published = [v \in Validators |-> NoPublished]
    /\ result = NoResult

\* a delay of the main loop longer than every run of the model
AnyDelay == 2 * BLOCKS_PER_TERM

\* every failure of the environment
AllFailures ==
    [commit_fails |-> TRUE, upload_fails |-> TRUE, fetch_fails |-> TRUE,
     benchmark_upload_fails |-> TRUE, query_fails |-> TRUE, lag |-> MaxLag,
     timeouts |-> MaxTimeouts, shapes |-> PeerShapes,
     peer_biases |-> 0..(BLOCKS_PER_TERM - 1), groups |-> {UnknownUidGroups},
     stale |-> AnyDelay]

Init ==
    InitScheduler({0}, {0}, {0, 4}, 0, BLOCKS_SHARE_SEED + 1, AllFailures)

Next == ForwardStep \/ NewBlock \/ PeerPublish

Spec == Init /\ [][Next]_vars

(***************************************************************************)
(* A validator on its own from the seedhash window of the term it starts   *)
(* in to the vote of the next term.                                        *)
(***************************************************************************)
InitTerm ==
    InitScheduler({0}, {0}, {0, 4}, BLOCKS_SEEDHASH_START,
                  BLOCKS_PER_TERM - BLOCKS_SEEDHASH_START + BLOCKS_SHARE_SEED + 1,
                  AllFailures)

NextTerm == ForwardStep \/ NewBlock

SpecTerm == InitTerm /\ [][NextTerm]_vars

(***************************************************************************)
(* Two validators that run this code, up to the vote of the term they      *)
(* start in; only the artifact store may fail.                             *)
(***************************************************************************)
FetchFailures ==
    [commit_fails |-> FALSE, upload_fails |-> FALSE, fetch_fails |-> TRUE,
     benchmark_upload_fails |-> FALSE, query_fails |-> FALSE, lag |-> 0,
     timeouts |-> 0, shapes |-> {}, peer_biases |-> {}, groups |-> {},
     stale |-> AnyDelay]

InitPair ==
    InitScheduler({0, 1}, {0}, {4}, 0, BLOCKS_SHARE_SEED + 1, FetchFailures)

NextPair == ForwardStep \/ NewBlock

SpecPair == InitPair /\ [][NextPair]_vars

(***************************************************************************)
(* The benchmark of a term: the ledger and the artifact store answer, the  *)
(* miners and the upload of the benchmark map may fail.                    *)
(***************************************************************************)
BenchmarkFailures ==
    [commit_fails |-> FALSE, upload_fails |-> FALSE, fetch_fails |-> FALSE,
     benchmark_upload_fails |-> TRUE, query_fails |-> TRUE, lag |-> 0,
     timeouts |-> MaxTimeouts, shapes |-> {"reveal"},
     peer_biases |-> {BLOCKS_SHARE_SEED - 1}, groups |-> {UnknownUidGroups},
     stale |-> AnyDelay]

InitBenchmark ==
    InitScheduler({0}, {0}, {4}, 0, MaxBlocks, BenchmarkFailures)

NextBenchmark ==
    \/ ForwardStep
    \/ ThreadStartStep
    \/ ThreadExitStep
    \/ ThreadFinishStep
    \/ ThreadDispatchStep
    \/ ThreadCollectStep
    \/ ThreadQueryRaisesStep
    \/ ThreadSetVersionStep
    \/ ThreadWaitStep
    \/ NewBlock
    \/ PeerPublish

SpecBenchmark == InitBenchmark /\ [][NextBenchmark]_vars

(***************************************************************************)
(* A whole term and the rollover that ends it: nothing fails, and a        *)
(* foreign validator reveals a group list longer than the benchmark        *)
(* window.                                                                 *)
(***************************************************************************)
NoFailures ==
    [commit_fails |-> FALSE, upload_fails |-> FALSE, fetch_fails |-> FALSE,
     benchmark_upload_fails |-> FALSE, query_fails |-> FALSE, lag |-> 0,
     timeouts |-> 0, shapes |-> {"reveal"},
     peer_biases |-> {BLOCKS_SHARE_SEED - 1}, groups |-> {LongGroups},
     stale |-> 1]

InitRollover ==
    InitScheduler({0}, {0}, {4}, 0, BLOCKS_PER_TERM + 1, NoFailures)

NextRollover ==
    \/ ForwardStep
    \/ ThreadStartStep
    \/ ThreadExitStep
    \/ ThreadFinishStep
    \/ ThreadDispatchStep
    \/ ThreadCollectStep
    \/ ThreadSetVersionStep
    \/ ThreadWaitStep
    \/ NewBlock
    \/ PeerPublish

SpecRollover == InitRollover /\ [][NextRollover]_vars

\* Fair scheduling: the ledger grows while the main loop keeps up with it,
\* and a thread that can take its next step takes it (the sleeps of
\* validator.py 172 and 213 and the timeout of the query at 192 end).
FairRollover ==
    /\ WF_vars(NewBlock)
    /\ WF_vars(ThreadStartStep)
    /\ WF_vars(ThreadExitStep)
    /\ WF_vars(ThreadFinishStep)
    /\ WF_vars(ThreadDispatchStep)
    /\ WF_vars(ThreadCollectStep)
    /\ WF_vars(ThreadSetVersionStep)
    /\ WF_vars(ThreadWaitStep)

SpecCancel == InitRollover /\ [][NextRollover]_vars /\ FairRollover

(***************************************************************************)
(* A term in which the benchmark thread keeps pace with the ledger: it     *)
(* polls the height every second (validator.py 213-215) and a block takes  *)
(* longer than its work on one block.  The main loop may lag.  A foreign   *)
(* validator reveals a group list that fits in the benchmark window, with  *)
(* or without a uid the snapshot does not hold.                            *)
(***************************************************************************)
\* two groups, the first with a uid that is not in the snapshot
FailingGroups == << <<99>>, <<2>> >>

\* two groups of miners of the snapshot
ShortGroups == << <<2>>, <<3>> >>

\* one group of a miner of the snapshot
SingleGroup == << <<4>> >>

\* thread i of validator v has a step to take before the ledger grows
ThreadCanStep(v, i) ==
    LET th == threads[v][i]
    IN  \/ th.pc \in {"start", "query", "setversion"}
        \/ th.pc = "wait" /\ BiasOf(height) # th.term_bias
        \/ /\ th.pc = "loop"
           /\ \/ SeesNewTerm(th, self[v])
              \/ th.term_bias >= BLOCKS_START_BENCHMARK /\ self[v].voted_uid = None
              \/ /\ PastChecks(th, self[v])
                 /\ LET gid == CurrentGroupId(th.term_bias)
                    IN  \/ gid >= Len(self[v].voted_groups)
                        \/ Range(self[v].voted_groups[gid + 1]) \subseteq
                              Range(metagraph.uids)

\* the ledger grows when every thread waits for it (validator.py 211-215)
\* or repeats an iteration that raises (validator.py 217-220)
PacedNewBlock ==
    /\ \A v \in running : \A i \in 1..Len(threads[v]) : ~ThreadCanStep(v, i)
    /\ NewBlock

PacedEnv ==
    [NoFailures EXCEPT !.groups = {FailingGroups, ShortGroups, SingleGroup},
                       !.stale = AnyDelay]

InitPaced ==
    InitScheduler({0}, {0}, {4}, 0, BLOCKS_PER_TERM + 1, PacedEnv)

NextPaced ==
    \/ ForwardStep
    \/ ThreadStartStep
    \/ ThreadExitStep
    \/ ThreadFinishStep
    \/ ThreadDispatchStep
    \/ ThreadCollectStep
    \/ ThreadSetVersionStep
    \/ ThreadWaitStep
    \/ PacedNewBlock
    \/ PeerPublish

\* Fair scheduling: the ledger grows, and a thread that can take its next
\* step takes it
FairPaced ==
    /\ WF_vars(PacedNewBlock)
    /\ WF_vars(ThreadStartStep)
    /\ WF_vars(ThreadExitStep)
    /\ WF_vars(ThreadFinishStep)
    /\ WF_vars(ThreadDispatchStep)
    /\ WF_vars(ThreadCollectStep)
    /\ WF_vars(ThreadSetVersionStep)
    /\ WF_vars(ThreadWaitStep)

SpecPaced == InitPaced /\ [][NextPaced]_vars /\ FairPaced

(***************************************************************************)
(* A validator on its own whose ledger client may report a lower height    *)
(* than before (a reorganisation, or another node that lags): from the     *)
(* seedhash window of term 1 into term 2.                                  *)
(***************************************************************************)
\* the height the run starts at
RegressFloor == ORIGIN_TERM_BLOCK + BLOCKS_PER_TERM + BLOCKS_SEEDHASH_START

\* get_current_block (validator.py 87) returns less than it did
BlockRegress ==
    /\ \E h \in RegressFloor..(height - 1) : height' = h
    /\ UNCHANGED << static, commits, self, threads, tick_log, published >>

RegressEnv ==
    [NoFailures EXCEPT !.commit_fails = TRUE, !.shapes = {},
                       !.peer_biases = {}, !.groups = {}, !.stale = AnyDelay]

InitRegress ==
    InitScheduler({0}, {0}, {0}, BLOCKS_SEEDHASH_START,
                  BLOCKS_PER_TERM - BLOCKS_SEEDHASH_START + 1, RegressEnv)

NextRegress == ForwardStep \/ NewBlock \/ BlockRegress

SpecRegress == InitRegress /\ [][NextRegress]_vars

(***************************************************************************)
(* cluster_miners on its own: one call on a network snapshot.              *)
(***************************************************************************)
\* what a neuron of a snapshot can be besides a miner with its own address:
\* a validator, a miner at "0.0.0.0", a miner whose last status has a
\* negative job_id, a miner at the address of its neighbour
SpecialKinds == {"validator", "noaddr", "nostatus", "dup"}

\* the neuron whose address a "dup" neuron u of n neurons shares
Twin(u, n) == (u + 1) % n

\* the snapshot of n neurons whose special neurons are DOMAIN kind
SnapshotOf(n, kind) ==
    [uids |-> [i \in 1..n |-> i - 1],
     stake |-> [u \in 0..(n - 1) |->
                  IF u \in DOMAIN kind /\ kind[u] = "validator"
                  THEN VALIDATOR_MIN_STAKE ELSE 0],
     ip |-> [u \in 0..(n - 1) |->
                  IF u \in DOMAIN kind /\ kind[u] = "noaddr" THEN 0
                  ELSE IF u \in DOMAIN kind /\ kind[u] = "dup"
                  THEN Twin(u, n) + 1
                  ELSE u + 1]]

StatusOf(n, kind) ==
    [known |-> TRUE,
     job_id |-> [u \in 0..(n - 1) |->
                  IF u \in DOMAIN kind /\ kind[u] = "nostatus" THEN -1 ELSE 0]]

\* the assignments of a kind to at most MaxSpecial of n neurons
KindChoices(n) ==
    UNION {[S -> SpecialKinds] :
              S \in {T \in SUBSET (0..(n - 1)) : Cardinality(T) <= MaxSpecial}}

\* the scheduler at rest, for a function applied on its own
Idle ==
    /\ ORIGIN_TERM_BLOCK = 0
    /\ height = BLOCKS_PER_TERM
    /\ last_block = height
    /\ running = {}
    /\ env = AllFailures
    /\ self = [v \in Validators |-> NewValidator(0, height)]
    /\ threads = [v \in Validators |-> << >>]
    /\ tick_log = [v \in Validators |-> NoLog]
    /\ published = [v \in Validators |-> NoPublished]
    /\ result = NoResult

InitCluster ==
    /\ \E n \in 0..MaxNeurons : \E kind \in KindChoices(n) :
          /\ metagraph = SnapshotOf(n, kind)
          /\ miner_status = StatusOf(n, kind)
    /\ commits = [u \in Validators |-> NoCommit]
    /\ Idle

\* one call of cluster_miners (validator.py 321-419)
ClusterCall ==
    /\ ~result.called
    /\ \E out \in ClusterOutcomes(metagraph, miner_status) :
          result' = [NoResult EXCEPT !.called = TRUE, !.raised = out.raised,
                                     !.groups = out.groups]
    /\ UNCHANGED << ORIGIN_TERM_BLOCK, metagraph, miner_status, last_block,
                    running, env, height, commits, self, threads, tick_log,
                    published >>

NextCluster == ClusterCall

SpecCluster == InitCluster /\ [][NextCluster]_vars

(***************************************************************************)
(* Properties of cluster_miners, under SpecCluster.                        *)
(***************************************************************************)
\* the eligible workers of the snapshot: stake below the validator
\* threshold, an address that is not zero, a last status that is valid
Eligible ==
    {u \in Range(metagraph.uids) :
        /\ metagraph.stake[u] < VALIDATOR_MIN_STAKE
        /\ metagraph.ip[u] # 0
        /\ miner_status.job_id[u] >= 0}

\* the place of a uid in the enumeration order
Pos(u) == CHOOSE i \in 1..Len(metagraph.uids) : metagraph.uids[i] = u

\* the eligible workers no earlier eligible worker shares the address of
FirstOfAddress ==
    LET eligible == Eligible
    IN  {u \in eligible :
            \A w \in eligible :
                metagraph.ip[w] = metagraph.ip[u] => Pos(w) >= Pos(u)}

\* the uids of the output, group after group
RECURSIVE Flat(_)
Flat(groups) == IF groups = << >> THEN << >> ELSE Head(groups) \o Flat(Tail(groups))

\* how often u occurs in the sequence flat
Occurrences(u, flat) == Cardinality({i \in 1..Len(flat) : flat[i] = u})

Returned == result.called /\ ~result.raised

C8_NoDuplicateUidOrAddress ==
    Returned =>
        LET flat == Flat(result.groups)
            eligible == Eligible
        IN  /\ \A i, j \in 1..Len(flat) :
                  i < j => /\ flat[i] # flat[j]
                           /\ metagraph.ip[flat[i]] # metagraph.ip[flat[j]]
            /\ \A i \in 1..Len(flat) : \A w \in eligible :
                  metagraph.ip[w] = metagraph.ip[flat[i]] => Pos(w) >= Pos(flat[i])

\* C8 witness: two eligible workers share an address, the output holds
\* the earlier of them and two full groups
C8_Witness ==
    /\ Returned
    /\ \E u, w \in Eligible :
          /\ Pos(u) < Pos(w)
          /\ metagraph.ip[u] = metagraph.ip[w]
          /\ Occurrences(u, Flat(result.groups)) = 1
    /\ Len(Flat(result.groups)) >= 2 * GROUP_SIZE

\* C9 as stated: n >= 4 address-unique eligible workers give exactly
\* floor(n/4) groups of size 4 plus, only when n mod 4 # 0, one group of
\* size n mod 4; the output holds no empty group
C9_GroupSizes ==
    LET n == Cardinality(FirstOfAddress)
        sized(k) == {g \in 1..Len(result.groups) : Len(result.groups[g]) = k}
    IN  (Returned /\ n >= GROUP_SIZE) =>
            /\ Cardinality(sized(GROUP_SIZE)) = n \div GROUP_SIZE
            /\ Len(result.groups) =
                  n \div GROUP_SIZE + (IF n % GROUP_SIZE # 0 THEN 1 ELSE 0)
            /\ n % GROUP_SIZE # 0 => Cardinality(sized(n % GROUP_SIZE)) = 1
            /\ sized(0) = {}

(***************************************************************************)
(* get_vote_result on its own: one call on a ledger.                       *)
(***************************************************************************)
\* the validators of the ledger get_vote_result is applied to
Voters == 0..2

\* the orders in which a snapshot can list the validators: the code
\* enumerates metagraph.uids as the snapshot gives them
VoteSnapshots ==
    {[uids |-> [i \in 1..Cardinality(Voters) |-> perm[i] - 1],
      stake |-> [u \in Voters |-> VALIDATOR_MIN_STAKE],
      ip |-> [u \in Voters |-> u + 1]] :
        perm \in Permutations(1..Cardinality(Voters))}

\* the blocks a commitment of the term is included in: the last block of
\* the reveal window and the block after it
VoteBlocks(h) == {h, h + 1}

\* a reveal of term 0 that is still the latest commitment of validator u
StaleCommits(u) == PeerShape("reveal", u, 0, BLOCKS_SHARE_SEED - 1)

\* what the ledger can hold for validator u when the vote of term 1 is taken
VoteCommits(u) ==
    {NoCommit} \cup StaleCommits(u) \cup
    UNION {PeerCommits(u, 1, b) :
              b \in VoteBlocks(BLOCKS_PER_TERM + BLOCKS_SHARE_SEED)}

InitVote ==
    /\ Idle
    /\ metagraph \in VoteSnapshots
    /\ miner_status = KnownStatus(metagraph)
    /\ commits \in {ledger \in [Voters -> UNION {VoteCommits(u) : u \in Voters}] :
                        \A u \in Voters : ledger[u] \in VoteCommits(u)}

\* one call of get_vote_result (validator.py 223-276) in term 1
VoteCall ==
    /\ ~result.called
    /\ \E fetch \in [Range(CollectedUids(metagraph, commits, 1)) -> FetchOutcomes] :
          LET r == get_vote_result(metagraph, commits, 1, fetch)
          IN  result' = [NoResult EXCEPT !.called = TRUE, !.raised = r.raised,
                                         !.groups = r.groups, !.uid = r.uid,
                                         !.index = r.index, !.valid = r.valid]
    /\ UNCHANGED << ORIGIN_TERM_BLOCK, metagraph, miner_status, last_block,
                    running, env, height, commits, self, threads, tick_log,
                    published >>

NextVote == VoteCall

SpecVote == InitVote /\ [][NextVote]_vars

(***************************************************************************)
(* Properties of get_vote_result, under SpecVote.                          *)
(***************************************************************************)
Voted == result.called /\ ~result.raised /\ result.uid # None

\* the sum of the seeds the commitments of a set of validators declare
RECURSIVE SeedSum(_)
SeedSum(S) ==
    IF S = {} THEN 0
    ELSE LET u == CHOOSE x \in S : TRUE
         IN  commits[u].seed + SeedSum(S \ {u})

\* the sequences that enumerate the set S once
Orders(S) ==
    {o \in [1..Cardinality(S) -> S] : \A i, j \in DOMAIN o : i # j => o[i] # o[j]}

\* C2 as stated: a commitment counted in valid_commits declares a seedhash
\* that is the hash of its declared seed
C2_ValidOnlyIfSeedHashes ==
    (result.called /\ ~result.raised) =>
        \A u \in Range(result.valid) : commits[u].seedhash = Hash(u, commits[u].seed)

\* C4 as stated: for a fixed set of valid commitments every order of
\* enumeration yields the winner get_vote_result returned
C4_SameWinnerInEveryOrder ==
    Voted =>
        \A o \in Orders(Range(result.valid)) :
            o[VotedIndex(o, commits) + 1] = result.uid

\* C4 amended: the index selected, sum of seeds mod count, depends only on
\* the set of valid commitments, and the winner is the commitment the
\* enumeration order of the snapshot places at that index
C4_IndexOrderIndependent ==
    Voted =>
        LET S == Range(result.valid)
        IN  /\ result.index = SeedSum(S) % Cardinality(S)
            /\ \A o \in Orders(S) : VotedIndex(o, commits) = result.index
            /\ \A i, j \in 1..Len(result.valid) :
                  i < j => Pos(result.valid[i]) < Pos(result.valid[j])
            /\ result.uid = result.valid[result.index + 1]
            /\ result.groups = commits[result.uid].version.groups

\* C4 witness: a winner among three valid commitments that another order
\* of enumeration does not select
C4_Witness ==
    /\ Voted
    /\ Len(result.valid) = 3
    /\ \E o \in Orders(Range(result.valid)) : o[result.index + 1] # result.uid

(***************************************************************************)
(* Properties of the scheduler.                                            *)
(***************************************************************************)
\* C1 as stated: two validators that have each cached a winner for a term
\* have cached the same winning uid and the same group list
C1_Agreement ==
    \A v, w \in running :
        (/\ self[v].term = self[w].term
         /\ self[v].voted_uid # None
         /\ self[w].voted_uid # None) =>
            /\ self[v].voted_uid = self[w].voted_uid
            /\ self[v].voted_groups = self[w].voted_groups

\* C3 as stated: whenever a validator publishes a seed commitment for term
\* T revealing s, its latest commitment until then is a seedhash commitment
\* it published during term T-1 whose hash is hash(s)
C3_PreCommitment ==
    [][\A v \in running :
          (commits'[v] # commits[v] /\ commits'[v].type = "seed") =>
              /\ commits[v].type = "seedhash"
              /\ commits[v].term = commits'[v].term - 1
              /\ commits[v].seedhash = Hash(v, commits'[v].seed)]_vars

\* C5: once voted_uid is not None in a term, voted_uid and voted_groups do
\* not change until the next rollover
C5_FrozenVote ==
    [][\A v \in running :
          (self[v].voted_uid # None /\ self'[v].term = self[v].term) =>
              /\ self'[v].voted_uid = self[v].voted_uid
              /\ self'[v].voted_groups = self[v].voted_groups]_vars

\* C5 witness: validator 0 has cached the foreign validator as the winner,
\* the foreign validator has published again since, outside the reveal
\* window, and validator 0 has ticked in the vote window after that
C5_Witness ==
    /\ self[0].voted_uid = 1
    /\ commits[1].some
    /\ commits[1].block % BLOCKS_PER_TERM > BLOCKS_SHARE_SEED
    /\ tick_log[0].vote_window
    /\ ~tick_log[0].vote
    /\ self[0].block_height >= commits[1].block
    /\ get_vote_result(metagraph, commits, self[0].term,
                       [u \in Range(CollectedUids(metagraph, commits, self[0].term))
                           |-> TRUE]).uid # self[0].voted_uid

\* C6: a publish flag is true exactly when a publish of its kind has
\* succeeded in the term, a publish is attempted only while its flag is
\* false, at most one publish of each kind succeeds in a term, a rejected
\* publish leaves the flag false, and a tick inside the window whose flag
\* is false attempts the publish
C6_IdempotentPublish ==
    \A v \in running :
        LET s == self[v]
            log == tick_log[v]
            pub == published[v]
        IN  /\ s.is_seedhash_commited <=> pub.seedhash >= 1
            /\ s.is_seed_commited <=> pub.seed >= 1
            /\ pub.seedhash <= 1
            /\ pub.seed <= 1
            /\ log.seedhash_attempt => ~log.seedhash_flag
            /\ log.seed_attempt => ~log.seed_flag
            /\ (log.seedhash_attempt /\ ~log.seedhash_ok) => ~s.is_seedhash_commited
            /\ (log.seed_attempt /\ ~log.seed_ok) => ~s.is_seed_commited
            /\ (log.seedhash_window /\ ~log.seedhash_flag) => log.seedhash_attempt
            /\ (log.seed_window /\ log.uploaded /\ ~log.seed_flag) => log.seed_attempt

\* C6 witness: in the term after the one whose seedhash it committed, a
\* validator had a seed publish rejected, has since ticked again in the
\* window, and that tick published the seed
C6_Witness ==
    \E v \in running :
        /\ published[v].seed_rejected
        /\ published[v].seed = 1
        /\ self[v].is_seed_commited
        /\ tick_log[v].seed_attempt
        /\ tick_log[v].seed_ok
        /\ commits[v].type = "seed"
        /\ commits[v].seedhash = Hash(v, commits[v].seed)
        /\ self[v].term = 2

\* C10: while the ledger is in the term of a benchmark thread, the thread
\* dispatches the probes of group i only at an in-term offset of at least
\* BLOCKS_START_BENCHMARK + i * BLOCKS_PER_GROUP, and the index of the
\* group it dispatches is never below the one it dispatched before
C10_SequentialWindows ==
    [][\A v \in running : \A i \in 1..Len(threads[v]) :
          (/\ i <= Len(threads'[v])
           /\ threads[v][i].pc = "loop"
           /\ threads'[v][i].pc = "query"
           /\ TermOf(height) = threads[v][i].current_term) =>
              LET gid == threads'[v][i].current_group_id
              IN  /\ BiasOf(height) >=
                        BLOCKS_START_BENCHMARK + gid * BLOCKS_PER_GROUP
                  /\ threads[v][i].last_probed # None =>
                        gid >= threads[v][i].last_probed]_vars

\* C10 witness: a thread that has the responses of group 0 recorded has
\* dispatched the probes of group 1, in its own term
C10_Witness ==
    \E v \in running : \E i \in 1..Len(threads[v]) :
        LET th == threads[v][i]
        IN  /\ th.pc = "query"
            /\ th.current_group_id = 1
            /\ th.last_probed = 1
            /\ th.current_group # << >>
            /\ TermOf(height) = th.current_term
            /\ Range(self[v].voted_groups[1]) \subseteq DOMAIN self[v].benchmark_state

(***************************************************************************)
(* Properties of the benchmark thread and of the rollover.                 *)
(***************************************************************************)
\* thread i of validator v sends the probes of a group in this step
Dispatches(v, i) ==
    /\ i <= Len(threads[v])
    /\ i <= Len(threads'[v])
    /\ threads[v][i].pc = "loop"
    /\ threads'[v][i].pc = "query"

\* C11 as stated: every probe dispatch happens while a winner is cached
\* (voted_uid is not None) and while the ledger's in-term offset lies in
\* [BLOCKS_START_BENCHMARK, BLOCKS_SEEDHASH_START), whatever the length of
\* the winning group list
C11_DispatchInsideWindow ==
    [][\A v \in running : \A i \in 1..Len(threads[v]) :
          Dispatches(v, i) =>
              /\ self[v].voted_uid # None
              /\ InBenchmarkWindow(BiasOf(height))]_vars

\* thread i of validator v writes benchmark_state (validator.py 195, 199),
\* benchmark_version (208) or benchmark_finished (184) in this step
Writes(v, i) ==
    /\ i <= Len(threads[v])
    /\ \/ /\ i <= Len(threads'[v])
          /\ threads[v][i].pc = "query"
          /\ threads'[v][i].pc = "setversion"
       \/ /\ i <= Len(threads'[v])
          /\ threads[v][i].pc = "setversion"
          /\ threads'[v][i].pc = "wait"
       \/ /\ threads'[v] = RemoveAt(threads[v], i)
          /\ ~self[v].benchmark_finished
          /\ self'[v].benchmark_finished

\* C12 as stated: while the main loop stays in a term, benchmark_state,
\* benchmark_version and benchmark_finished change only by the write of a
\* thread that was started in that term, so that after a rollover no
\* thread of an earlier term writes them
C12_RolloverIsolation ==
    [][\A v \in running :
          (/\ self'[v].term = self[v].term
           /\ \/ self'[v].benchmark_state # self[v].benchmark_state
              \/ self'[v].benchmark_version # self[v].benchmark_version
              \/ self'[v].benchmark_finished # self[v].benchmark_finished) =>
              \E i \in 1..Len(threads[v]) :
                  /\ Writes(v, i)
                  /\ threads[v][i].started_term = self[v].term]_vars

\* the live threads of validator v that were started in term t
StartedIn(ths, t) == {i \in 1..Len(ths) : ths[i].started_term = t}

\* C13: at any time at most one live benchmark thread was started in the
\* term the main loop is in, and the main loop starts a thread only when
\* benchmark_finished is false and no thread started in this term is alive
C13_SingleWorker ==
    [][\A v \in running :
          /\ Cardinality(StartedIn(threads'[v], self'[v].term)) <= 1
          /\ Len(threads'[v]) > Len(threads[v]) =>
                /\ ~self'[v].benchmark_finished
                /\ StartedIn(threads[v], self'[v].term) = {}]_vars

\* C13 witness: a thread started in the current term waits for the
\* responses of a group, and the main loop has ticked inside the benchmark
\* window since without starting another one
C13_Witness ==
    \E v \in running :
        /\ Len(threads[v]) = 1
        /\ threads[v][1].pc = "query"
        /\ threads[v][1].started_term = self[v].term
        /\ threads[v][1].current_group # << >>
        /\ InBenchmarkWindow(self[v].term_bias)
        /\ self[v].block_height > ORIGIN_TERM_BLOCK + BLOCKS_PER_TERM + BLOCKS_START_BENCHMARK
        /\ ~self[v].benchmark_finished
        /\ ~tick_log[v].thread_start

\* the terms of a run
Terms == 0..2

\* a live thread of validator v that was started in term t and has cached
\* that term (validator.py 163)
WorkerOf(v, t) ==
    \E i \in 1..Len(threads[v]) :
        /\ threads[v][i].started_term = t
        /\ threads[v][i].pc # "start"
        /\ threads[v][i].current_term = t

\* C14: under fair scheduling, a thread started in term T that has cached
\* T ends after the main loop has observed a term greater than T, and a
\* thread dispatches probes only while the term it cached is the term the
\* main loop last observed
C14_Cancellation ==
    /\ \A v \in Validators : \A t \in Terms :
          (v \in running /\ WorkerOf(v, t) /\ self[v].current_term > t)
              ~> (StartedIn(threads[v], t) = {})
    /\ [][\A v \in running : \A i \in 1..Len(threads[v]) :
            Dispatches(v, i) =>
                threads[v][i].current_term = self[v].current_term]_vars

\* C14 witness: the main loop is in term 2 and no thread is alive, and the
\* benchmark map of term 2 holds responses: a thread of term 1 was alive
\* after the rollover and has ended since
C14_Witness ==
    \E v \in running :
        /\ self[v].term = 2
        /\ threads[v] = << >>
        /\ self[v].benchmark_state # EmptyMap

\* every download of an artifact succeeds
AllFetched == [u \in Range(metagraph.uids) |-> TRUE]

\* validator v has no winner cached and has skipped the benchmark so far
SkipsBenchmark(v) ==
    /\ self[v].voted_groups = << >>
    /\ ~self[v].benchmark_finished
    /\ self[v].benchmark_state = EmptyMap
    /\ \A i \in 1..Len(threads[v]) :
          /\ threads[v][i].pc \in {"start", "loop"}
          /\ threads[v][i].current_group_id = None

\* the last tick of validator v ran the seedhash phase without raising
ReachedSeedhashPhase(v) ==
    /\ ~tick_log[v].raised
    /\ tick_log[v].seedhash_window
    /\ tick_log[v].seedhash_attempt \/ tick_log[v].seedhash_flag

\* C15: while the ledger holds no valid commitment for the term of a
\* validator, voted_uid stays None; while voted_uid is None no thread has
\* dispatched a probe, the benchmark map is empty and benchmark_finished
\* is false; and a tick that reads an offset inside the seedhash window
\* still runs the seedhash phase
C15_NoWinnerSkips ==
    /\ [](\A v \in running :
            self[v].voted_uid = None =>
                /\ SkipsBenchmark(v)
                /\ InSeedhashWindow(self[v].term_bias) => ReachedSeedhashPhase(v))
    /\ [][\A v \in running :
            (/\ self[v].voted_uid = None
             /\ ValidCommits(metagraph, commits, self'[v].term, AllFetched) = << >>) =>
                self'[v].voted_uid = None]_vars

\* C15 witness: a tick at the first offset of the benchmark window took the
\* vote, found no valid commitment and started a thread, which has read its
\* offset and has not dispatched
C15_Witness ==
    \E v \in running :
        /\ tick_log[v].vote
        /\ ~tick_log[v].raised
        /\ tick_log[v].thread_start
        /\ self[v].voted_uid = None
        /\ ValidCommits(metagraph, commits, self[v].term, AllFetched) = << >>
        /\ Len(threads[v]) = 1
        /\ threads[v][1].pc = "loop"
        /\ threads[v][1].term_bias >= BLOCKS_START_BENCHMARK

(***************************************************************************)
(* Further properties of get_vote_result, under SpecVote.                  *)
(***************************************************************************)
\* the collected commitments that are not seed commitments
Malformed ==
    {u \in Range(CollectedUids(metagraph, commits, 1)) : commits[u].type # "seed"}

\* the ledger without them
WellFormedOnly ==
    [u \in DOMAIN commits |-> IF u \in Malformed THEN NoCommit ELSE commits[u]]

\* C16 as stated: a commitment of the current term with an in-window block
\* that is not a seed commitment is left out, and get_vote_result returns
\* what it returns on the ledger without that commitment
C16_MalformedExcluded ==
    result.called =>
        /\ ~result.raised
        /\ \E fetch \in [Range(CollectedUids(metagraph, WellFormedOnly, 1)) -> BOOLEAN] :
              LET r == get_vote_result(metagraph, WellFormedOnly, 1, fetch)
              IN  /\ result.uid = r.uid
                  /\ result.groups = r.groups

(***************************************************************************)
(* Reward/Weight Aggregator: set_weights (validator.py 433-479) up to the  *)
(* lists it hands to get_rewards and update_scores.                        *)
(***************************************************************************)
\* for i in range(256) at validator.py 464
UID_RANGE == 256

\* validator.py 443-444: the block of the commitment lies in the seedhash
\* window
InSeedhashBlocks(commit) ==
    LET commit_term_bias == commit.block % BLOCKS_PER_TERM
    IN  /\ commit_term_bias >= BLOCKS_SEEDHASH_START
        /\ commit_term_bias < BLOCKS_SEEDHASH_END

\* validator.py 438-447: the uids whose commitment enters commits
WeightCommits(mg, ledger, term) ==
    SelectSeq(ValidatorUids(mg), LAMBDA uid :
        /\ ledger[uid].some
        /\ ledger[uid].term = term
        /\ InSeedhashBlocks(ledger[uid]))

\* validator.py 452-457: only a seedhash commitment has the key
\* benchmark_version; the download of benchmark-<uid>, file
\* benchmark-<term>, at that version gives the mapping json.load reads
HasBenchmark(commit, term, fetched) ==
    /\ commit.type = "seedhash"
    /\ fetched
    /\ commit.benchmark_version.some
    /\ commit.benchmark_version.file = term

\* validator.py 460
BenchmarkCommits(mg, ledger, term, fetch) ==
    SelectSeq(WeightCommits(mg, ledger, term), LAMBDA uid :
        HasBenchmark(ledger[uid], term, fetch[uid]))

\* validator.py 465-468: the samples of uid i, in the order of commits
Response(i, with, ledger) ==
    LET has == SelectSeq(with, LAMBDA uid :
                   IntKey(i) \in DOMAIN ledger[uid].benchmark_version.data)
    IN  [k \in 1..Len(has) |-> ledger[has[k]].benchmark_version.data[IntKey(i)]]

\* validator.py 462-471: miner_uids and responses
set_weights(mg, ledger, term, fetch) ==
    LET with == BenchmarkCommits(mg, ledger, term, fetch)
        miner_uids == SelectSeq([k \in 1..UID_RANGE |-> k - 1], LAMBDA i :
                          Len(Response(i, with, ledger)) > 0)
    IN  [commits |-> with, miner_uids |-> miner_uids,
         responses |-> [k \in 1..Len(miner_uids) |->
                           Response(miner_uids[k], with, ledger)]]

(***************************************************************************)
(* set_weights on its own: one call in term 1 on a ledger of seedhash      *)
(* commitments and the benchmark maps they point to.                       *)
(***************************************************************************)
\* the miners of a snapshot
MinersOf(mg) == {u \in Range(mg.uids) : mg.stake[u] < VALIDATOR_MIN_STAKE}

\* the maps a benchmark thread can have recorded (validator.py 193-199)
\* when it uploads: the responses of a group of miners, -1 for none
BenchmarkMaps(miners) ==
    UNION {{RecordResponses(EmptyMap, r) : r \in [S -> {-1, 1}]} :
              S \in SUBSET miners}

\* the term and the block of a seedhash commitment: of term 1 inside the
\* seedhash window, of term 1 after it, of term 0
WeightBlocks ==
    {<< 1, BLOCKS_PER_TERM + BLOCKS_SEEDHASH_START >>,
     << 1, BLOCKS_PER_TERM + BLOCKS_SEEDHASH_END >>,
     << 0, BLOCKS_SEEDHASH_START >>}

\* what the ledger can hold for validator u when set_weights runs
WeightLedger(u, miners) ==
    {NoCommit,
     SeedCommit(1, BLOCKS_PER_TERM + BLOCKS_SEEDHASH_START, Hash(u, 0), 0,
                Hash(u, << >>), NoArtifact)}
    \cup UNION {
           {SeedhashCommit(tb[1], tb[2], Hash(u, 0), NoBenchmark)} \cup
           {SeedhashCommit(tb[1], tb[2], Hash(u, 0),
                           BenchmarkVersion(tb[1], JsonRoundTrip(m))) :
               m \in BenchmarkMaps(miners)} :
           tb \in WeightBlocks}

InitWeights ==
    /\ Idle
    /\ metagraph = Snapshot(Cardinality(Validators), MaxProbed)
    /\ miner_status = KnownStatus(metagraph)
    /\ commits \in
          {ledger \in [Validators ->
                          UNION {WeightLedger(u, MinersOf(metagraph)) :
                                    u \in Validators}] :
              \A u \in Validators :
                  ledger[u] \in WeightLedger(u, MinersOf(metagraph))}

\* one call of set_weights (validator.py 433-479) in term 1
WeightsCall ==
    /\ ~result.called
    /\ \E fetch \in [Range(WeightCommits(metagraph, commits, 1)) -> FetchOutcomes] :
          LET r == set_weights(metagraph, commits, 1, fetch)
          IN  result' = [NoResult EXCEPT !.called = TRUE, !.commits = r.commits,
                                         !.miner_uids = r.miner_uids,
                                         !.responses = r.responses]
    /\ UNCHANGED << ORIGIN_TERM_BLOCK, metagraph, miner_status, last_block,
                    running, env, height, commits, self, threads, tick_log,
                    published >>

NextWeights == WeightsCall

SpecWeights == InitWeights /\ [][NextWeights]_vars

(***************************************************************************)
(* Properties of set_weights, under SpecWeights.                           *)
(***************************************************************************)
\* the benchmark map set_weights downloaded for validator u
MapOf(u) == commits[u].benchmark_version.data

\* the uploaded map of validator u has an entry for worker x
Holds(u, x) == JsonKey(x) \in DOMAIN MapOf(u)

\* the validators whose map set_weights has attached, in its order, that
\* have an entry for worker x
Samplers(x) == SelectSeq(result.commits, LAMBDA u : Holds(u, x))

C19_StableAggregation ==
    result.called =>
        /\ \A k, l \in 1..Len(result.miner_uids) :
              k < l => result.miner_uids[k] < result.miner_uids[l]
        /\ Len(result.responses) = Len(result.miner_uids)
        /\ \A k \in 1..Len(result.miner_uids) :
              LET x == result.miner_uids[k]
                  from == Samplers(x)
              IN  /\ result.responses[k] # << >>
                  /\ result.responses[k] =
                        [j \in 1..Len(from) |-> MapOf(from[j])[JsonKey(x)]]
        /\ \A x \in Range(metagraph.uids) :
              x \in Range(result.miner_uids) <=> Samplers(x) # << >>
        /\ \E fetch \in [Range(WeightCommits(metagraph, commits, 1)) -> BOOLEAN] :
              LET r == set_weights(metagraph, commits, 1, fetch)
              IN  /\ r.commits = result.commits
                  /\ r.miner_uids = result.miner_uids
                  /\ r.responses = result.responses

(***************************************************************************)
(* Small populations of cluster_miners, under SpecCluster.                 *)
(***************************************************************************)
\* C18: a call of cluster_miners on a snapshot without eligible workers
\* returns the empty group list, and a call on a snapshot with 1, 2 or 3
\* eligible workers of pairwise different addresses does not raise and
\* returns exactly one group, the members of which are all of them
C18_SmallPopulations ==
    result.called =>
        LET n == Cardinality(Eligible)
        IN  /\ n = 0 => ~result.raised /\ result.groups = << >>
            /\ (n \in 1..(GROUP_SIZE - 1) /\ Eligible = FirstOfAddress) =>
                  /\ ~result.raised
                  /\ Len(result.groups) = 1
                  /\ Range(result.groups[1]) = Eligible
                  /\ Len(result.groups[1]) = n

(***************************************************************************)
(* The winner formula of get_vote_result, under SpecVote.                  *)
(***************************************************************************)
\* the validators of the snapshot whose latest commitment is of the
\* current term (term 1), published no later than the end of the reveal
\* window, backed by an artifact of that term the store holds under the
\* committed version, with the hash the commitment declares; F is the set
\* of validators whose artifact the store delivers
ValidSet(F) ==
    {u \in Range(metagraph.uids) :
        /\ metagraph.stake[u] >= VALIDATOR_MIN_STAKE
        /\ commits[u].some
        /\ commits[u].term = 1
        /\ commits[u].block % BLOCKS_PER_TERM <= BLOCKS_SHARE_SEED
        /\ u \in F
        /\ commits[u].version.some
        /\ commits[u].version.file = 1
        /\ commits[u].seedhash = commits[u].version.hash}

\* the valid list: ValidSet(F) in the enumeration order of the snapshot
IsValidList(valid, F) ==
    /\ Range(valid) = ValidSet(F)
    /\ Len(valid) = Cardinality(ValidSet(F))
    /\ \A i, j \in 1..Len(valid) : i < j => Pos(valid[i]) < Pos(valid[j])

\* C20: a call of get_vote_result that returns a winner returns the
\* commitment at index (sum of the seeds of the valid commitments) mod
\* (number of valid commitments) of the valid list in enumeration order;
\* the winner is a member of the valid set; every call on the same ledger
\* with the same valid list returns the same winner and groups; and two
\* valid commitments with the seeds 7 and 13 select index 0
C20_WinnerFormula ==
    /\ Voted =>
          /\ \E F \in SUBSET Voters :
                /\ IsValidList(result.valid, F)
                /\ result.uid =
                      result.valid[(SeedSum(ValidSet(F)) % Cardinality(ValidSet(F))) + 1]
                /\ result.uid \in ValidSet(F)
          /\ \A fetch \in [Range(CollectedUids(metagraph, commits, 1)) -> FetchOutcomes] :
                LET again == get_vote_result(metagraph, commits, 1, fetch)
                IN  again.valid = result.valid =>
                       /\ again.uid = result.uid
                       /\ again.groups = result.groups
    /\ VotedIndex(<< 0, 1 >>, [u \in {0, 1} |-> [seed |-> IF u = 0 THEN 7 ELSE 13]]) = 0

\* C20 witness: a winner at index 0 of two valid commitments whose seeds
\* sum to 2, the third validator's commitment being left out of the valid
\* list because it is of the term before
C20_Witness ==
    /\ Voted
    /\ Len(result.valid) = 2
    /\ SeedSum(Range(result.valid)) = 2
    /\ result.uid = result.valid[1]
    /\ \E u \in Voters \ Range(result.valid) :
          commits[u].some /\ commits[u].term = 0

(***************************************************************************)
(* One probe per group and term.                                           *)
(***************************************************************************)
\* C21 as stated: a benchmark thread that has probed group i in its term
\* dispatches its next probe only when the ledger's in-term offset has
\* entered the window of a later group, and for a later group
C21_OneProbePerGroup ==
    [][\A v \in running : \A i \in 1..Len(threads[v]) :
          (Dispatches(v, i) /\ threads[v][i].last_probed # None) =>
              /\ CurrentGroupId(BiasOf(height)) > threads[v][i].last_probed
              /\ threads'[v][i].current_group_id > threads[v][i].last_probed]_vars

(***************************************************************************)
(* Alignment of the probes with the block clock.                           *)
(***************************************************************************)
\* C22 as stated: whenever a benchmark thread dispatches probes, on a first
\* attempt or on a retry, the ledger is in the thread's term, the group
\* index is floor((o - BLOCKS_START_BENCHMARK) / BLOCKS_PER_GROUP) for the
\* ledger's in-term offset o at that moment, and the uids probed are those
\* of voted_groups at that index
C22_ProbesAlignedToClock ==
    [][\A v \in running : \A i \in 1..Len(threads[v]) :
          Dispatches(v, i) =>
              LET gid == threads'[v][i].current_group_id
              IN  /\ TermOf(height) = threads[v][i].current_term
                  /\ gid = CurrentGroupId(BiasOf(height))
                  /\ threads'[v][i].current_group = self[v].voted_groups[gid + 1]]_vars

(***************************************************************************)
(* Isolation of a failing group and the end of the benchmark, under        *)
(* SpecPaced.                                                              *)
(***************************************************************************)
\* the indices of the groups whose window lies in the benchmark window
GroupIds ==
    0..((BLOCKS_SEEDHASH_START - BLOCKS_START_BENCHMARK) \div BLOCKS_PER_GROUP - 1)

\* every uid of group j of the winning list is in the snapshot
GroupKnown(v, j) ==
    /\ j < Len(self[v].voted_groups)
    /\ Range(self[v].voted_groups[j + 1]) \subseteq Range(metagraph.uids)

\* the benchmark map holds a response for every uid of group j
Benchmarked(v, j) ==
    /\ j < Len(self[v].voted_groups)
    /\ Range(self[v].voted_groups[j + 1]) \subseteq DOMAIN self[v].benchmark_state

\* the ledger is in term t, in the window of group j of the winner validator
\* v has cached for t, and a thread of term t runs
InWindowOf(v, t, j) ==
    /\ v \in running
    /\ self[v].term = t
    /\ TermOf(height) = t
    /\ WorkerOf(v, t)
    /\ self[v].voted_uid # None
    /\ j < Len(self[v].voted_groups)
    /\ BiasOf(height) >= BLOCKS_START_BENCHMARK
    /\ CurrentGroupId(BiasOf(height)) = j

\* C23 as stated: under fair scheduling, when the ledger is in the window
\* of group j and an earlier group i of the winning list fails on every
\* attempt (it names a uid the snapshot does not hold), the thread records
\* the responses of group j before the term rolls over
C23_FailureIsolation ==
    \A v \in Validators : \A t \in Terms : \A j \in GroupIds :
        (/\ InWindowOf(v, t, j)
         /\ GroupKnown(v, j)
         /\ \E i \in 0..(j - 1) :
               ~(Range(self[v].voted_groups[i + 1]) \subseteq Range(metagraph.uids)))
            ~> (self[v].term = t /\ Benchmarked(v, j))

\* the winner validator v has cached has groups that all fit in the
\* benchmark window and name miners of the snapshot only
WinnerFits(v) ==
    /\ self[v].voted_uid # None
    /\ Len(self[v].voted_groups) <= Cardinality(GroupIds)
    /\ \A j \in GroupIds : j < Len(self[v].voted_groups) => GroupKnown(v, j)

\* the main loop of validator v starts a thread in this step
Starts(v) == Len(threads'[v]) > Len(threads[v])

TermExceeds(v) == TermOf(height) > self[v].term

\* after a tick with a rollover every per-term field of validator v holds
\* its reset value or what a phase action of the same tick has set
ResetBeforePhases(v) ==
    LET s == self'[v]
        log == tick_log'[v]
    IN  /\ s.term = TermOf(height)
        /\ s.is_seedhash_commited => log.seedhash_ok
        /\ s.is_seed_commited => log.seed_ok
        /\ s.groups.some => log.seed_window
        /\ s.is_uploaded_group.some => log.upload
        /\ s.voted_uid # None => log.vote
        /\ s.voted_uid = None => s.voted_groups = << >>
        /\ ~s.is_set_weight
        /\ ~s.is_seed_shared
        /\ s.benchmark_state = EmptyMap
        /\ s.benchmark_version = NoBenchmark
        /\ ~s.benchmark_finished

\* a tick without rollover leaves the recorded term and resets no per-term
\* field of validator v
NothingReset(v) ==
    LET s == self[v]
        t == self'[v]
    IN  /\ t.term = s.term
        /\ s.is_seedhash_commited => t.is_seedhash_commited
        /\ s.is_seed_commited => t.is_seed_commited
        /\ s.groups.some => t.groups = s.groups
        /\ s.is_uploaded_group.some => t.is_uploaded_group = s.is_uploaded_group
        /\ s.voted_uid # None =>
              t.voted_uid = s.voted_uid /\ t.voted_groups = s.voted_groups
        /\ t.benchmark_state = s.benchmark_state
        /\ t.benchmark_version = s.benchmark_version
        /\ t.benchmark_finished = s.benchmark_finished

\* C25: a tick rolls over exactly when the term index computed from the
\* observed height exceeds the recorded term; the rollover records that
\* index and resets the publish flags, groups, voted_uid, voted_groups,
\* benchmark_state, benchmark_version and benchmark_finished before the
\* phase actions of the tick; a tick without rollover resets none of them;
\* and the recorded term never decreases
C25_RolloverReset ==
    [][\A v \in running :
          /\ self'[v].term >= self[v].term
          /\ Forward(v) =>
                /\ tick_log'[v].rolled <=> TermExceeds(v)
                /\ TermExceeds(v) => ResetBeforePhases(v)
                /\ ~TermExceeds(v) => NothingReset(v)]_vars

\* C25 witness: the tick that rolled over to term 2 has published the seed
\* of term 2, the benchmark map is empty, and a thread of term 1 that has
\* uploaded the map of term 1 is still alive
C25_Witness ==
    \E v \in running :
        /\ tick_log[v].rolled
        /\ self[v].term = 2
        /\ tick_log[v].seed_ok
        /\ self[v].benchmark_state = EmptyMap
        /\ self[v].benchmark_version = NoBenchmark
        /\ \E i \in 1..Len(threads[v]) :
              /\ threads[v][i].started_term = 1
              /\ threads[v][i].version.some

(***************************************************************************)
(* The phases of one tick.                                                 *)
(***************************************************************************)
\* the phase actions the last tick of validator v executed: the seedhash
\* publish (validator.py 111), the upload or reveal of the seed (126, 129),
\* the vote resolution (143) and the start of the thread (148)
PhasesExecuted(v) ==
    {p \in {"seedhash", "seed", "vote", "benchmark"} :
        \/ p = "seedhash" /\ tick_log[v].seedhash_attempt
        \/ p = "seed" /\ (tick_log[v].upload \/ tick_log[v].seed_attempt)
        \/ p = "vote" /\ tick_log[v].vote
        \/ p = "benchmark" /\ tick_log[v].thread_start}

\* C26 as stated: a tick of forward executes at most one of the phase
\* actions seedhash publish, seed upload or reveal, vote resolution and
\* start of the benchmark thread
C26_OnePhasePerTick ==
    \A v \in running : Cardinality(PhasesExecuted(v)) <= 1

(***************************************************************************)
(* The window tests of get_vote_result and set_weights on their own, for   *)
(* every origin of the term clock: one commitment of term 1 on the ledger. *)
(***************************************************************************)
\* the values of ORIGIN_TERM_BLOCK modulo BLOCKS_PER_TERM
Origins == 0..(BLOCKS_PER_TERM - 1)

\* the commitments validator u may have published for term 1 in block b: a
\* reveal as the code makes it, or a seedhash commitment
OriginCommits(u, b) ==
    {SeedCommit(1, b, Hash(u, 0), 0, Hash(u, << >>),
                StateArtifact(1, 0, Hash(u, 0), << >>, Hash(u, << >>))),
     SeedhashCommit(1, b, Hash(u, 0), NoBenchmark)}

InitOrigin ==
    /\ ORIGIN_TERM_BLOCK \in Origins
    /\ metagraph = Snapshot(Cardinality(Validators), 0)
    /\ miner_status = KnownStatus(metagraph)
    /\ height = ORIGIN_TERM_BLOCK + 2 * BLOCKS_PER_TERM - 1
    /\ last_block = height
    /\ running = {}
    /\ env = AllFailures
    /\ \E b \in (ORIGIN_TERM_BLOCK + BLOCKS_PER_TERM)..height :
         \E c \in OriginCommits(0, b) :
            commits = [u \in Validators |-> IF u = 0 THEN c ELSE NoCommit]
    /\ self = [v \in Validators |-> NewValidator(0, height)]
    /\ threads = [v \in Validators |-> << >>]
    /\ tick_log = [v \in Validators |-> NoLog]
    /\ published = [v \in Validators |-> NoPublished]
    /\ result = NoResult

\* one call of get_vote_result (validator.py 223-276) and one of
\* set_weights (validator.py 433-447) in term 1, every download succeeding;
\* of set_weights the list commits of line 447 is kept
WindowCall ==
    /\ ~result.called
    /\ LET r == get_vote_result(metagraph, commits, 1,
                                [u \in Range(metagraph.uids) |-> TRUE])
       IN  result' = [NoResult EXCEPT !.called = TRUE, !.raised = r.raised,
                                      !.groups = r.groups, !.uid = r.uid,
                                      !.index = r.index, !.valid = r.valid,
                                      !.commits = WeightCommits(metagraph, commits, 1)]
    /\ UNCHANGED << ORIGIN_TERM_BLOCK, metagraph, miner_status, last_block,
                    running, env, height, commits, self, threads, tick_log,
                    published >>

NextOrigin == WindowCall

SpecOrigin == InitOrigin /\ [][NextOrigin]_vars

\* C28 as stated: for every origin, a seed commitment of the current term
\* is kept by the window test of get_vote_result when the in-term offset of
\* its block is at most BLOCKS_SHARE_SEED and discarded when it is greater,
\* and set_weights keeps a seedhash commitment exactly when the in-term
\* offset of its block lies in [BLOCKS_SEEDHASH_START, BLOCKS_SEEDHASH_END)
C28_WindowAgreesWithClock ==
    result.called =>
        \A u \in Validators :
            (commits[u].some /\ commits[u].term = 1) =>
                LET o == BiasOf(commits[u].block)
                IN  /\ commits[u].type = "seed" =>
                          (u \in Range(result.valid) <=> o <= BLOCKS_SHARE_SEED)
                    /\ commits[u].type = "seedhash" =>
                          (u \in Range(result.commits) <=>
                              (o >= BLOCKS_SEEDHASH_START /\ o < BLOCKS_SEEDHASH_END))

(***************************************************************************)
(* A block counter that regresses, under SpecRegress.                      *)
(***************************************************************************)
\* the call of forward that ends in this step ran one of its phase actions
RanPhase(v) ==
    \/ tick_log'[v].seedhash_attempt
    \/ tick_log'[v].upload
    \/ tick_log'[v].seed_attempt
    \/ tick_log'[v].vote
    \/ tick_log'[v].thread_start

\* C27 as stated: a tick that observes a height whose term index is lower
\* than the recorded term signals a failure and runs no phase action
C27_RegressionReported ==
    [][\A v \in running :
          (Forward(v) /\ TermOf(height) < self[v].term) =>
              /\ tick_log'[v].raised
              /\ ~RanPhase(v)]_vars

(***************************************************************************)
(* The benchmark version handle within a term.                             *)
(***************************************************************************)
\* C29 as stated: while the main loop stays in a term, a benchmark_version
\* that holds the handle of a successful upload is not set back to None,
\* and a seedhash commitment published in a term in which an upload of the
\* benchmark map succeeded carries a handle
C29_VersionKept ==
    [][\A v \in running :
          (self[v].benchmark_version.some /\ self'[v].term = self[v].term) =>
              /\ self'[v].benchmark_version.some
              /\ (commits'[v] # commits[v] /\ commits'[v].type = "seedhash") =>
                    commits'[v].benchmark_version.some]_vars

(***************************************************************************)
(* The grouping adopted by get_vote_result, under SpecVote.                *)
(***************************************************************************)
\* C30 as stated: whenever get_vote_result returns a winner, the hash of
\* the group list it adopts from the winner's artifact is the grouphash the
\* winner's commitment declares, and the seed of the winner's commitment
\* that entered the seed sum is the seed stored in that artifact
C30_GroupingBoundToCommitment ==
    Voted =>
        /\ Hash(result.uid, result.groups) = commits[result.uid].grouphash
        /\ \A u \in Range(result.valid) : commits[u].seed = commits[u].version.seed

====
